---- MODULE Spec2Model ----
(***************************************************************************)
(* Masters Tournament API (src/main.py): the SQLite record store            *)
(* (tournaments, golfers, admin_logs), the query handlers, the admin        *)
(* handlers behind verify_admin, and the seeding from masters_data.json.    *)
(*                                                                          *)
(* Every handler is an `async def` that never awaits, so one request runs   *)
(* to completion before the next starts: one action per handler.            *)
(*                                                                          *)
(* Python None / SQL NULL / JSON null is the empty sequence <<>>, a present *)
(* value v of a nullable place is <<v>>.  The columns created_at and        *)
(* updated_at (CURRENT_TIMESTAMP) are not part of the rows: no handler      *)
(* branches on them.                                                        *)
(***************************************************************************)
EXTENDS Integers, Sequences, FiniteSets, TLC

VARIABLES
    tournaments,   \* rows of table tournaments
    golfers,       \* rows of table golfers
    admin_logs,    \* rows of table admin_logs, in insertion order
    seqT,          \* sqlite_sequence of tournaments (AUTOINCREMENT)
    seqG,          \* sqlite_sequence of golfers (AUTOINCREMENT)
    file,          \* masters_data.json
    server,        \* "down", "up" or "crashed" (init_database raised)
    last_op,       \* the last request served: its handler,
    last_status,   \*   the HTTP status of its response,
    last_cred,     \*   its basic-auth credentials (None on a public route),
    last_arg,      \*   its path, query or body parameter,
    last_body      \*   and the body of its response

vars == <<last_op, last_status, last_cred, last_arg, last_body,
          tournaments, golfers, admin_logs, seqT, seqG, file, server>>

\* Longest audit log explored: a logging handler is not run beyond it.
MaxLog == 2

None == <<>>
Some(v) == <<v>>

ADMIN_USERNAME == "admin"
ADMIN_PASSWORD == "masters2024!"

\* hashlib.sha256(...).hexdigest(): an injective digest of the password.
Sha256(p) == <<"sha256", p>>

ADMIN_PASSWORD_HASH == Sha256(ADMIN_PASSWORD)

NoErr == ""

Db(T, G, sT, sG) == [T |-> T, G |-> G, seqT |-> sT, seqG |-> sG]

TKeys == {"year", "winner", "score", "to_par", "nationality"}

\* INSERT [OR REPLACE] INTO tournaments (year, winner, score, to_par,
\* nationality): every column is NOT NULL, year is UNIQUE, id is AUTOINCREMENT.
\* p maps each column to a nullable parameter.
InsertT(db, p, orReplace) ==
    IF \E k \in TKeys : p[k] = None
    THEN [err |-> "IntegrityError", db |-> db]
    ELSE LET clash == {r \in db.T : r.year = p.year[1]} IN
         IF clash # {} /\ ~orReplace
         THEN [err |-> "IntegrityError", db |-> db]
         ELSE [err |-> NoErr,
               db  |-> [db EXCEPT
                   !.T = (db.T \ clash) \cup
                         {[id |-> db.seqT + 1, year |-> p.year[1],
                           winner |-> p.winner[1], score |-> p.score[1],
                           to_par |-> p.to_par[1],
                           nationality |-> p.nationality[1]]},
                   !.seqT = db.seqT + 1]]

\* INSERT [OR REPLACE] INTO golfers (name, bio, total_majors, turned_pro,
\* nationality): name is NOT NULL UNIQUE, the other columns are nullable.
InsertG(db, p, orReplace) ==
    IF p.name = None
    THEN [err |-> "IntegrityError", db |-> db]
    ELSE LET clash == {r \in db.G : r.name = p.name[1]} IN
         IF clash # {} /\ ~orReplace
         THEN [err |-> "IntegrityError", db |-> db]
         ELSE [err |-> NoErr,
               db  |-> [db EXCEPT
                   !.G = (db.G \ clash) \cup
                         {[id |-> db.seqG + 1, name |-> p.name[1],
                           bio |-> p.bio, total_majors |-> p.total_majors,
                           turned_pro |-> p.turned_pro,
                           nationality |-> p.nationality]},
                   !.seqG = db.seqG + 1]]

TParam(y, w, s, tp, n) ==
    [year |-> Some(y), winner |-> Some(w), score |-> Some(s),
     to_par |-> Some(tp), nationality |-> Some(n)]

GParam(nm, b, m, pro, n) ==
    [name |-> Some(nm), bio |-> Some(b), total_majors |-> Some(m),
     turned_pro |-> Some(pro), nationality |-> Some(n)]

\* The fallback rows of insert_initial_data (the i-acute of the 2017 winner
\* is written i: no request of the model names that winner).
DefaultTournaments == <<
    TParam(2024, "Scottie Scheffler", 277, -11, "USA"),
    TParam(2023, "Jon Rahm", 276, -12, "ESP"),
    TParam(2022, "Scottie Scheffler", 278, -10, "USA"),
    TParam(2021, "Hideki Matsuyama", 278, -10, "JPN"),
    TParam(2020, "Dustin Johnson", 268, -20, "USA"),
    TParam(2019, "Tiger Woods", 275, -13, "USA"),
    TParam(2018, "Patrick Reed", 273, -15, "USA"),
    TParam(2017, "Sergio Garcia", 279, -9, "ESP"),
    TParam(2016, "Danny Willett", 283, -5, "ENG"),
    TParam(2015, "Jordan Spieth", 270, -18, "USA") >>

DefaultGolfers == <<
    GParam("Tiger Woods",
           "Tiger Woods is one of the greatest golfers of all time, with 15 major championships including 5 Masters titles.",
           15, 1996, "USA"),
    GParam("Scottie Scheffler",
           "Scottie Scheffler has emerged as one of golf's brightest stars, becoming the world's #1 ranked player.",
           2, 2018, "USA") >>

\* cursor.executemany of a plain INSERT: stops at the first row that raises.
RECURSIVE ExecManyT(_, _)
ExecManyT(rows, db) ==
    IF rows = <<>> THEN [err |-> NoErr, db |-> db]
    ELSE LET r == InsertT(db, Head(rows), FALSE) IN
         IF r.err # NoErr THEN r ELSE ExecManyT(Tail(rows), r.db)

RECURSIVE ExecManyG(_, _)
ExecManyG(rows, db) ==
    IF rows = <<>> THEN [err |-> NoErr, db |-> db]
    ELSE LET r == InsertG(db, Head(rows), FALSE) IN
         IF r.err # NoErr THEN r ELSE ExecManyG(Tail(rows), r.db)

insert_initial_data(db) ==
    LET r == ExecManyT(DefaultTournaments, db) IN
    IF r.err # NoErr THEN r ELSE ExecManyG(DefaultGolfers, r.db)

\* A JSON object is a function from its keys to nullable values; a key the
\* object lacks is outside its DOMAIN.
Get(obj, k) == IF k \in DOMAIN obj THEN obj[k] ELSE None

\* The tournaments loop of load_from_json: tournament['year'] ... raise
\* KeyError on a missing key, the INSERT OR REPLACE raises on a null.
RECURSIVE LoadTournaments(_, _)
LoadTournaments(recs, db) ==
    IF recs = <<>> THEN [err |-> NoErr, db |-> db]
    ELSE LET t == Head(recs) IN
         IF ~(TKeys \subseteq DOMAIN t)
         THEN [err |-> "KeyError", db |-> db]
         ELSE LET r == InsertT(db, [k \in TKeys |-> t[k]], TRUE) IN
              IF r.err # NoErr THEN r ELSE LoadTournaments(Tail(recs), r.db)

\* The golfers loop of load_from_json: golfer['name'] is required,
\* golfer.get('total_majors', 0) defaults only when the key is missing.
RECURSIVE LoadGolfers(_, _)
LoadGolfers(recs, db) ==
    IF recs = <<>> THEN [err |-> NoErr, db |-> db]
    ELSE LET g == Head(recs) IN
         IF "name" \notin DOMAIN g
         THEN [err |-> "KeyError", db |-> db]
         ELSE LET p == [name |-> g["name"],
                        bio |-> Get(g, "bio"),
                        total_majors |-> IF "total_majors" \in DOMAIN g
                                         THEN g["total_majors"] ELSE Some(0),
                        turned_pro |-> Get(g, "turned_pro"),
                        nationality |-> Get(g, "nationality")]
                  r == InsertG(db, p, TRUE) IN
              IF r.err # NoErr THEN r ELSE LoadGolfers(Tail(recs), r.db)

\* The try block of load_from_json.
TryLoad(db, f) ==
    IF ~f.exists THEN [err |-> "FileNotFoundError", db |-> db]
    ELSE IF ~f.parses THEN [err |-> "JSONDecodeError", db |-> db]
    ELSE LET ts == IF "tournaments" \in DOMAIN f.data
                   THEN f.data["tournaments"] ELSE <<>>
             gs == IF "golfers" \in DOMAIN f.data
                   THEN f.data["golfers"] ELSE <<>>
             r  == LoadTournaments(ts, db) IN
         IF r.err # NoErr THEN r ELSE LoadGolfers(gs, r.db)

\* load_from_json: on any exception of the try block, insert_initial_data
\* runs on whatever the block had inserted; what that raises propagates.
load_from_json(db, f) ==
    LET t == TryLoad(db, f) IN
    IF t.err = NoErr THEN t ELSE insert_initial_data(t.db)

(***************************************************************************)
(* Text: int(q) and the LIKE operator of SQLite.                            *)
(***************************************************************************)
Ch(s, i) == SubSeq(s, i, i)

Digits == <<"0", "1", "2", "3", "4", "5", "6", "7", "8", "9">>

IsDigit(c) == \E d \in 1..10 : Digits[d] = c

DigitVal(c) == (CHOOSE d \in 1..10 : Digits[d] = c) - 1

RECURSIVE Strip(_)
Strip(s) ==
    IF Len(s) > 0 /\ Ch(s, 1) = " " THEN Strip(SubSeq(s, 2, Len(s)))
    ELSE IF Len(s) > 0 /\ Ch(s, Len(s)) = " " THEN Strip(SubSeq(s, 1, Len(s) - 1))
    ELSE s

\* The digit part of a Python integer literal: digits, with single
\* underscores allowed between two digits.
DigitsOK(s) ==
    /\ Len(s) > 0
    /\ IsDigit(Ch(s, 1))
    /\ IsDigit(Ch(s, Len(s)))
    /\ \A i \in 1..Len(s) : IsDigit(Ch(s, i)) \/ Ch(s, i) = "_"
    /\ \A i \in 1..(Len(s) - 1) : ~(Ch(s, i) = "_" /\ Ch(s, i + 1) = "_")

RECURSIVE DigitsValue(_, _)
DigitsValue(s, acc) ==
    IF s = "" THEN acc
    ELSE LET rest == SubSeq(s, 2, Len(s)) IN
         IF Ch(s, 1) = "_" THEN DigitsValue(rest, acc)
         ELSE DigitsValue(rest, 10 * acc + DigitVal(Ch(s, 1)))

Signed(s) == Len(s) > 0 /\ Ch(s, 1) \in {"+", "-"}

Unsigned(s) == IF Signed(s) THEN SubSeq(s, 2, Len(s)) ELSE s

\* int(q) returns a value (TRUE) or raises ValueError (FALSE).
IntParses(q) == DigitsOK(Unsigned(Strip(q)))

IntValue(q) ==
    LET s == Strip(q)
        v == DigitsValue(Unsigned(s), 0) IN
    IF Signed(s) /\ Ch(s, 1) = "-" THEN 0 - v ELSE v

\* LIKE folds the case of the ASCII letters only.
UpperToLower ==
    [c \in {"A", "B", "C", "D", "E", "F", "G", "H", "I", "J", "K", "L", "M",
            "N", "O", "P", "Q", "R", "S", "T", "U", "V", "W", "X", "Y", "Z"} |->
        CASE c = "A" -> "a" [] c = "B" -> "b" [] c = "C" -> "c" [] c = "D" -> "d"
          [] c = "E" -> "e" [] c = "F" -> "f" [] c = "G" -> "g" [] c = "H" -> "h"
          [] c = "I" -> "i" [] c = "J" -> "j" [] c = "K" -> "k" [] c = "L" -> "l"
          [] c = "M" -> "m" [] c = "N" -> "n" [] c = "O" -> "o" [] c = "P" -> "p"
          [] c = "Q" -> "q" [] c = "R" -> "r" [] c = "S" -> "s" [] c = "T" -> "t"
          [] c = "U" -> "u" [] c = "V" -> "v" [] c = "W" -> "w" [] c = "X" -> "x"
          [] c = "Y" -> "y" [] c = "Z" -> "z"]

Fold(c) == IF c \in DOMAIN UpperToLower THEN UpperToLower[c] ELSE c

\* s LIKE p from position j of s and i of p: % matches any run of
\* characters, _ any one character, anything else itself up to ASCII case.
RECURSIVE LikeAt(_, _, _, _)
LikeAt(p, i, s, j) ==
    IF i > Len(p) THEN j > Len(s)
    ELSE IF Ch(p, i) = "%"
         THEN \E k \in j..(Len(s) + 1) : LikeAt(p, i + 1, s, k)
         ELSE /\ j <= Len(s)
              /\ Ch(p, i) = "_" \/ Fold(Ch(p, i)) = Fold(Ch(s, j))
              /\ LikeAt(p, i + 1, s, j + 1)

Like(s, p) == LikeAt(p, 1, s, 1)

(***************************************************************************)
(* Queries.                                                                 *)
(***************************************************************************)
\* ORDER BY year DESC
RECURSIVE OrderByYearDesc(_)
OrderByYearDesc(R) ==
    IF R = {} THEN <<>>
    ELSE LET top == CHOOSE r \in R : \A q \in R : q.year <= r.year IN
         <<top>> \o OrderByYearDesc(R \ {top})

\* ORDER BY name
RECURSIVE OrderByName(_, _)
OrderByName(R, names) ==
    IF names = <<>> THEN <<>>
    ELSE LET here == {r \in R : r.name = Head(names)} IN
         (IF here = {} THEN <<>> ELSE <<CHOOSE r \in here : TRUE>>)
             \o OrderByName(R, Tail(names))

\* SELECT year FROM tournaments WHERE winner = ? ORDER BY year DESC
WinsOf(T, name) ==
    LET rows == OrderByYearDesc({r \in T : r.winner = name}) IN
    [i \in 1..Len(rows) |-> rows[i].year]

Reply(st, b) == [status |-> st, body |-> b]

get_tournament_by_year(T, year) ==
    LET rows == {r \in T : r.year = year} IN
    IF rows = {} THEN Reply(404, "Tournament not found")
    ELSE Reply(200, CHOOSE r \in rows : TRUE)

\* MajorsOr without the `or len(wins)`.
MajorsOrZero(total_majors, wins) ==
    IF total_majors = None THEN 0 ELSE total_majors[1]

\* row[3] or len(wins)
MajorsOr(total_majors, wins) ==
    IF total_majors = None \/ total_majors = Some(0)
    THEN Len(wins) ELSE total_majors[1]

get_golfer_by_name(T, G, golfer_name) ==
    LET rows == {g \in G : g.name = golfer_name}
        wins == WinsOf(T, golfer_name) IN
    IF rows = {} /\ ~(\E r \in T : r.winner = golfer_name)
    THEN Reply(404, "Golfer not found")
    ELSE LET row == IF rows # {}
                    THEN LET g == CHOOSE g \in rows : TRUE IN
                         [id |-> Some(g.id), name |-> g.name, bio |-> g.bio,
                          total_majors |-> g.total_majors,
                          turned_pro |-> g.turned_pro,
                          nationality |-> g.nationality]
                    ELSE [id |-> None, name |-> golfer_name, bio |-> None,
                          total_majors |-> Some(0), turned_pro |-> None,
                          nationality |-> None] IN
         Reply(200, [id |-> IF row.id = None THEN 0 ELSE row.id[1],
                     name |-> row.name,
                     bio |-> row.bio,
                     total_majors |-> MajorsOr(row.total_majors, wins),
                     turned_pro |-> row.turned_pro,
                     nationality |-> row.nationality,
                     masters_wins |-> wins])

search_tournaments(T, q) ==
    IF IntParses(q)
    THEN Reply(200, OrderByYearDesc({r \in T : r.year = IntValue(q)}))
    ELSE Reply(200, OrderByYearDesc({r \in T : Like(r.winner, "%" \o q \o "%")}))

\* SELECT MIN(score) FROM tournaments: NULL on an empty table.
MinScore(T) ==
    IF T = {} THEN None
    ELSE Some(CHOOSE s \in {r.score : r \in T} : \A r \in T : s <= r.score)

WinCount(T, w) == Cardinality({r \in T : r.winner = w})

\* GROUP BY winner ORDER BY wins DESC LIMIT 1: any winner with the most wins.
MostWinsCandidates(T) ==
    {w \in {r.winner : r \in T} : \A r \in T : WinCount(T, r.winner) <= WinCount(T, w)}

get_tournament_stats(T, top) ==
    Reply(200, [total_years |-> Cardinality(T),
                unique_winners |-> Cardinality({r.winner : r \in T}),
                best_score |-> MinScore(T),
                most_wins |-> IF top = None THEN 0 ELSE WinCount(T, top[1]),
                most_wins_golfer |-> IF top = None THEN "" ELSE top[1]])

(***************************************************************************)
(* Admin operations on the store.                                           *)
(***************************************************************************)
\* verify_admin that forgets the password.
verify_admin_username_only(cred) == cred[1] = ADMIN_USERNAME

\* verify_admin: secrets.compare_digest on the username and on the digest
\* of the password; both must match.
verify_admin(cred) ==
    LET is_correct_username == cred[1] = ADMIN_USERNAME
        is_correct_password == Sha256(cred[2]) = ADMIN_PASSWORD_HASH IN
    is_correct_username /\ is_correct_password

\* One row of admin_logs; details is the f-string, as the tuple of its
\* prefix and interpolated values.
LogEntry(action, details) == [action |-> action, details |-> details]

\* log_admin_action
log_admin_action(logs, action, details) == Append(logs, LogEntry(action, details))

\* UpsertTournament without the SELECT for an existing year.
UpsertTournamentAlwaysInsert(db, t) ==
    [action |-> "INSERT",
     db |-> [db EXCEPT
         !.T = db.T \cup {[id |-> db.seqT + 1, year |-> t.year,
                           winner |-> t.winner, score |-> t.score,
                           to_par |-> t.to_par,
                           nationality |-> t.nationality]},
         !.seqT = db.seqT + 1]]

\* add_tournament, the statements on table tournaments: UPDATE the row of
\* the year if a SELECT finds one, INSERT otherwise.
UpsertTournament(db, t) ==
    IF \E r \in db.T : r.year = t.year
    THEN [action |-> "UPDATE",
          db |-> [db EXCEPT !.T =
              {IF r.year = t.year
               THEN [r EXCEPT !.winner = t.winner, !.score = t.score,
                              !.to_par = t.to_par,
                              !.nationality = t.nationality]
               ELSE r : r \in db.T}]]
    ELSE [action |-> "INSERT",
          db |-> InsertT(db, TParam(t.year, t.winner, t.score, t.to_par,
                                    t.nationality), FALSE).db]

\* add_or_update_golfer, the statements on table golfers.
UpsertGolfer(db, g) ==
    IF \E r \in db.G : r.name = g.name
    THEN [action |-> "UPDATE",
          db |-> [db EXCEPT !.G =
              {IF r.name = g.name
               THEN [r EXCEPT !.bio = g.bio, !.total_majors = g.total_majors,
                              !.turned_pro = g.turned_pro,
                              !.nationality = g.nationality]
               ELSE r : r \in db.G}]]
    ELSE [action |-> "INSERT",
          db |-> InsertG(db, [name |-> Some(g.name), bio |-> g.bio,
                              total_majors |-> g.total_majors,
                              turned_pro |-> g.turned_pro,
                              nationality |-> g.nationality], FALSE).db]

\* The names of the model in ascending (BINARY collation) order.
NameOrder == <<"Jon Rahm", "Rory McIlroy", "Scottie Scheffler", "Tiger Woods">>

\* export_data_to_json: the exported object, without id and timestamps.
ExportTournament(r) ==
    [year |-> r.year, winner |-> r.winner, score |-> r.score,
     to_par |-> r.to_par, nationality |-> r.nationality]

\* ExportGolfer that reads turned_pro from the column before it.
ExportGolferWrongColumn(r) ==
    [name |-> r.name, bio |-> r.bio, total_majors |-> r.total_majors,
     turned_pro |-> r.total_majors, nationality |-> r.nationality]

ExportGolfer(r) ==
    [name |-> r.name, bio |-> r.bio, total_majors |-> r.total_majors,
     turned_pro |-> r.turned_pro, nationality |-> r.nationality]

export_data(T, G) ==
    LET ts == OrderByYearDesc(T)
        gs == OrderByName(G, NameOrder) IN
    [tournaments |-> [i \in 1..Len(ts) |-> ExportTournament(ts[i])],
     golfers     |-> [i \in 1..Len(gs) |-> ExportGolfer(gs[i])]]

\* The exported object written as JSON text and parsed back by json.load:
\* every value of a tournament is present, None becomes null.
JsonOfTournament(t) == [k \in TKeys |-> Some(t[k])]

JsonOfGolfer(g) ==
    [name |-> Some(g.name), bio |-> g.bio, total_majors |-> g.total_majors,
     turned_pro |-> g.turned_pro, nationality |-> g.nationality]

JsonOf(body) ==
    [tournaments |-> [i \in 1..Len(body.tournaments) |->
                          JsonOfTournament(body.tournaments[i])],
     golfers     |-> [i \in 1..Len(body.golfers) |->
                          JsonOfGolfer(body.golfers[i])]]

\* get_admin_logs: newest first, LIMIT 100.
LogLimit == 100

RecentLogs(logs) ==
    LET n == IF Len(logs) < LogLimit THEN Len(logs) ELSE LogLimit IN
    [i \in 1..n |-> logs[Len(logs) + 1 - i]]

(***************************************************************************)
(* Requests of the model.                                                   *)
(***************************************************************************)
Creds == {<<"admin", "masters2024!">>, <<"admin", "masters2023!">>,
          <<"root", "masters2024!">>}

TournamentInputs ==
    {[year |-> 2024, winner |-> "Rory McIlroy", score |-> 277, to_par |-> -11,
      nationality |-> "NIR"],
     [year |-> 2025, winner |-> "Rory McIlroy", score |-> 277, to_par |-> -11,
      nationality |-> "NIR"]}

GolferInputs ==
    {[name |-> "Jon Rahm", bio |-> None, total_majors |-> Some(0),
      turned_pro |-> None, nationality |-> None],
     [name |-> "Jon Rahm", bio |-> Some("Jon Rahm bio"), total_majors |-> Some(2),
      turned_pro |-> Some(2016), nationality |-> Some("ESP")],
     [name |-> "Tiger Woods", bio |-> Some("Tiger Woods bio"),
      total_majors |-> Some(15), turned_pro |-> Some(1996),
      nationality |-> Some("USA")]}

YearInputs == {2024, 2025}

NameInputs == {"Jon Rahm", "Rory McIlroy", "Tiger Woods"}

Queries == {"2024", " 2_025", "rahm", "Mc", "%", "T_g"}

EmptyDoc == [tournaments |-> <<>>, golfers |-> <<>>]

NoFile == [exists |-> FALSE, parses |-> FALSE, data |-> EmptyDoc]

JsonFile(doc) == [exists |-> TRUE, parses |-> TRUE, data |-> doc]

FileInputs ==
    {NoFile,
     \* not JSON
     [exists |-> TRUE, parses |-> FALSE, data |-> EmptyDoc],
     JsonFile(EmptyDoc),
     \* loads
     JsonFile([tournaments |->
                  <<TParam(2025, "Rory McIlroy", 277, -11, "NIR"),
                    TParam(2023, "Jon Rahm", 276, -12, "ESP")>>,
               golfers |->
                  <<[name |-> Some("Rory McIlroy")],
                    [name |-> Some("Jon Rahm"), bio |-> None,
                     total_majors |-> None, turned_pro |-> Some(2016),
                     nationality |-> Some("ESP")]>>]),
     \* the second tournament lacks score, to_par and nationality
     JsonFile([tournaments |->
                  <<TParam(2024, "Scottie Scheffler", 277, -11, "USA"),
                    [year |-> Some(2023), winner |-> Some("Jon Rahm")]>>,
               golfers |-> <<>>]),
     \* the golfer lacks name
     JsonFile([tournaments |->
                  <<TParam(2025, "Rory McIlroy", 277, -11, "NIR")>>,
               golfers |-> <<[bio |-> Some("bio")]>>]),
     \* the winner is null; no golfers key
     JsonFile([tournaments |->
                  <<[TParam(2025, "Rory McIlroy", 277, -11, "NIR")
                        EXCEPT !.winner = None]>>])}

\* The data files of the query runs: none, and one tournament with its winner.
QueryFiles ==
    {NoFile,
     JsonFile([tournaments |->
                  <<TParam(2025, "Rory McIlroy", 277, -11, "NIR")>>,
               golfers |-> <<[name |-> Some("Rory McIlroy")]>>])}

\* The data files of the seeding runs.
SeedFiles ==
    {NoFile,
     \* not JSON
     [exists |-> TRUE, parses |-> FALSE, data |-> EmptyDoc],
     JsonFile(EmptyDoc),
     \* loads
     JsonFile([tournaments |->
                  <<TParam(2025, "Rory McIlroy", 277, -11, "NIR")>>,
               golfers |-> <<[name |-> Some("Tiger Woods")]>>]),
     \* the second tournament lacks score, to_par and nationality; the
     \* records around it are complete and no year is a built-in one
     JsonFile([tournaments |->
                  <<TParam(2025, "Rory McIlroy", 277, -11, "NIR"),
                    [year |-> Some(2014), winner |-> Some("Bubba Watson")],
                    TParam(2026, "Rory McIlroy", 275, -13, "NIR")>>,
               golfers |-> <<[name |-> Some("Rory McIlroy")]>>]),
     \* the same failure after a record of a built-in year
     JsonFile([tournaments |->
                  <<TParam(2024, "Scottie Scheffler", 277, -11, "USA"),
                    [year |-> Some(2023), winner |-> Some("Jon Rahm")]>>,
               golfers |-> <<>>])}

\* Largest AUTOINCREMENT value a seeding at startup may reach.
MaxId == 25

(***************************************************************************)
(* Actions.                                                                 *)
(***************************************************************************)
Respond(op, cred, arg, reply) ==
    /\ last_op' = op
    /\ last_status' = reply.status
    /\ last_cred' = cred
    /\ last_arg' = arg
    /\ last_body' = reply.body

\* A step that serves no request.
NoRequest == Respond("none", None, None, Reply(0, None))

Init ==
    /\ tournaments = {}
    /\ golfers = {}
    /\ admin_logs = <<>>
    /\ seqT = 0
    /\ seqG = 0
    /\ file = NoFile
    /\ server = "down"
    /\ last_op = "none"
    /\ last_status = 0
    /\ last_cred = None
    /\ last_arg = None
    /\ last_body = None

\* Someone replaces, creates or removes masters_data.json.
WriteFile(f) ==
    /\ file' = f
    /\ NoRequest
    /\ UNCHANGED <<tournaments, golfers, admin_logs, seqT, seqG, server>>

\* Someone saves the body of the export just received as masters_data.json.
SaveExport ==
    /\ server = "up"
    /\ last_op = "export_data_to_json"
    /\ last_status = 200
    /\ file' = JsonFile(JsonOf(last_body))
    /\ NoRequest
    /\ UNCHANGED <<tournaments, golfers, admin_logs, seqT, seqG, server>>

\* init_database at process start: seed when table tournaments is empty.
\* An exception leaves the transaction uncommitted and ends the process.
Startup ==
    /\ server # "up"
    /\ LET db == Db(tournaments, golfers, seqT, seqG)
           r  == IF tournaments # {} THEN [err |-> NoErr, db |-> db]
                 ELSE IF file.exists THEN load_from_json(db, file)
                 ELSE insert_initial_data(db) IN
       IF r.err # NoErr
       THEN /\ server' = "crashed"
            /\ UNCHANGED <<tournaments, golfers, seqT, seqG>>
       ELSE /\ r.db = db \/ (r.db.seqT <= MaxId /\ r.db.seqG <= MaxId)
            /\ server' = "up"
            /\ tournaments' = r.db.T
            /\ golfers' = r.db.G
            /\ seqT' = r.db.seqT
            /\ seqG' = r.db.seqG
    /\ NoRequest
    /\ UNCHANGED <<admin_logs, file>>

\* The process ends.
Stop ==
    /\ server = "up"
    /\ server' = "down"
    /\ NoRequest
    /\ UNCHANGED <<tournaments, golfers, admin_logs, seqT, seqG, file>>

\* A response that changes nothing in the store.
Answer(op, cred, arg, reply) ==
    /\ Respond(op, cred, arg, reply)
    /\ UNCHANGED <<tournaments, golfers, admin_logs, seqT, seqG, file, server>>

\* verify_admin raised 401: the handler body does not run.
Unauthorized(op, cred) ==
    Answer(op, cred, None, Reply(401, "Invalid admin credentials"))

GetAllTournaments ==
    /\ server = "up"
    /\ Answer("get_all_tournaments", None, None,
              Reply(200, OrderByYearDesc(tournaments)))

GetTournamentByYear(year) ==
    /\ server = "up"
    /\ Answer("get_tournament_by_year", None, year,
              get_tournament_by_year(tournaments, year))

GetAllGolfers ==
    /\ server = "up"
    /\ LET gs == OrderByName(golfers, NameOrder) IN
       Answer("get_all_golfers", None, None,
              Reply(200, [i \in 1..Len(gs) |->
                  [id |-> gs[i].id, name |-> gs[i].name, bio |-> gs[i].bio,
                   total_majors |-> gs[i].total_majors,
                   turned_pro |-> gs[i].turned_pro,
                   nationality |-> gs[i].nationality,
                   masters_wins |-> WinsOf(tournaments, gs[i].name)]]))

GetGolferByName(name) ==
    /\ server = "up"
    /\ Answer("get_golfer_by_name", None, name,
              get_golfer_by_name(tournaments, golfers, name))

SearchTournaments(q) ==
    /\ server = "up"
    /\ Answer("search_tournaments", None, q, search_tournaments(tournaments, q))

GetTournamentStats ==
    /\ server = "up"
    /\ \E top \in IF tournaments = {} THEN {None}
                  ELSE {Some(w) : w \in MostWinsCandidates(tournaments)} :
          Answer("get_tournament_stats", None, None,
                 get_tournament_stats(tournaments, top))

AddTournament(cred, t) ==
    /\ server = "up"
    /\ IF ~verify_admin(cred) THEN Unauthorized("add_tournament", cred)
       ELSE LET u == UpsertTournament(Db(tournaments, golfers, seqT, seqG), t) IN
            /\ Len(admin_logs) < MaxLog
            /\ tournaments' = u.db.T
            /\ seqT' = u.db.seqT
            /\ admin_logs' = log_admin_action(admin_logs, u.action,
                   <<"Tournament", t.year, t.winner, t.score, t.to_par>>)
            /\ Respond("add_tournament", cred, t,
                   Reply(200, CHOOSE r \in u.db.T : r.year = t.year))
            /\ UNCHANGED <<golfers, seqG, file, server>>

AddOrUpdateGolfer(cred, g) ==
    /\ server = "up"
    /\ IF ~verify_admin(cred) THEN Unauthorized("add_or_update_golfer", cred)
       ELSE LET u == UpsertGolfer(Db(tournaments, golfers, seqT, seqG), g)
                row == CHOOSE r \in u.db.G : r.name = g.name IN
            /\ Len(admin_logs) < MaxLog
            /\ golfers' = u.db.G
            /\ seqG' = u.db.seqG
            /\ admin_logs' = log_admin_action(admin_logs, u.action,
                                              <<"Golfer", g.name>>)
            /\ Respond("add_or_update_golfer", cred, g,
                   Reply(200, [id |-> row.id, name |-> row.name, bio |-> row.bio,
                               total_majors |-> row.total_majors,
                               turned_pro |-> row.turned_pro,
                               nationality |-> row.nationality,
                               masters_wins |-> WinsOf(tournaments, g.name)]))
            /\ UNCHANGED <<tournaments, seqT, file, server>>

\* DeleteAuthorized that logs and answers before looking the year up.
DeleteAuthorizedLogsFirst(cred, year) ==
    /\ Len(admin_logs) < MaxLog
    /\ tournaments' = {r \in tournaments : r.year # year}
    /\ admin_logs' = log_admin_action(admin_logs, "DELETE", <<"Tournament", year>>)
    /\ Respond("delete_tournament", cred, year,
           Reply(200, <<"Tournament deleted successfully", year>>))
    /\ UNCHANGED <<golfers, seqT, seqG, file, server>>

\* DeleteAuthorized that forgets log_admin_action.
DeleteAuthorizedNoLog(cred, year) ==
    LET result == {r \in tournaments : r.year = year} IN
    IF result = {}
    THEN Answer("delete_tournament", cred, year,
                Reply(404, "Tournament not found"))
    ELSE /\ tournaments' = tournaments \ result
         /\ Respond("delete_tournament", cred, year,
                Reply(200, <<"Tournament deleted successfully", year>>))
         /\ UNCHANGED <<golfers, admin_logs, seqT, seqG, file, server>>

\* delete_tournament, after verify_admin.
DeleteAuthorized(cred, year) ==
    LET result == {r \in tournaments : r.year = year} IN
    IF result = {}
    THEN Answer("delete_tournament", cred, year,
                Reply(404, "Tournament not found"))
    ELSE /\ Len(admin_logs) < MaxLog
         /\ tournaments' = tournaments \ result
         /\ admin_logs' = log_admin_action(admin_logs, "DELETE",
                <<"Tournament", year, (CHOOSE r \in result : TRUE).winner>>)
         /\ Respond("delete_tournament", cred, year,
                Reply(200, <<"Tournament deleted successfully", year>>))
         /\ UNCHANGED <<golfers, seqT, seqG, file, server>>

DeleteTournament(cred, year) ==
    /\ server = "up"
    /\ IF ~verify_admin(cred) THEN Unauthorized("delete_tournament", cred)
       ELSE DeleteAuthorized(cred, year)

\* reload_data_from_json, after verify_admin.  An exception out of
\* load_from_json leaves the DELETEs and inserts uncommitted.
ReloadAuthorized(cred) ==
    IF ~file.exists
    THEN Answer("reload_data_from_json", cred, None,
                Reply(404, "masters_data.json file not found"))
    ELSE LET r == load_from_json(Db({}, {}, seqT, seqG), file) IN
         IF r.err # NoErr
         THEN Answer("reload_data_from_json", cred, None,
                     Reply(500, <<"Error reloading data", r.err>>))
         ELSE /\ Len(admin_logs) < MaxLog
              /\ tournaments' = r.db.T
              /\ golfers' = r.db.G
              /\ seqT' = r.db.seqT
              /\ seqG' = r.db.seqG
              /\ admin_logs' = log_admin_action(admin_logs, "RELOAD_DATA",
                     <<"Reloaded all data from masters_data.json">>)
              /\ Respond("reload_data_from_json", cred, None,
                     Reply(200, "Data successfully reloaded from masters_data.json"))
              /\ UNCHANGED <<file, server>>

ReloadData(cred) ==
    /\ server = "up"
    /\ IF ~verify_admin(cred) THEN Unauthorized("reload_data_from_json", cred)
       ELSE ReloadAuthorized(cred)

ExportData(cred) ==
    /\ server = "up"
    /\ IF ~verify_admin(cred) THEN Unauthorized("export_data_to_json", cred)
       ELSE LET export == export_data(tournaments, golfers) IN
            /\ Len(admin_logs) < MaxLog
            /\ admin_logs' = log_admin_action(admin_logs, "EXPORT_DATA",
                   <<"Exported", Len(export.tournaments), Len(export.golfers)>>)
            /\ Respond("export_data_to_json", cred, None, Reply(200, export))
            /\ UNCHANGED <<tournaments, golfers, seqT, seqG, file, server>>

GetAdminLogs(cred) ==
    /\ server = "up"
    /\ IF ~verify_admin(cred) THEN Unauthorized("get_admin_logs", cred)
       ELSE Answer("get_admin_logs", cred, None, Reply(200, RecentLogs(admin_logs)))

Admin == <<ADMIN_USERNAME, ADMIN_PASSWORD>>

\* The admin service called with the configured credentials, the data file
\* and the process.
Next ==
    \/ \E f \in FileInputs : WriteFile(f)
    \/ SaveExport
    \/ Startup
    \/ Stop
    \/ \E t \in TournamentInputs : AddTournament(Admin, t)
    \/ \E g \in GolferInputs : AddOrUpdateGolfer(Admin, g)
    \/ \E y \in YearInputs : DeleteTournament(Admin, y)
    \/ ReloadData(Admin)
    \/ ExportData(Admin)
    \/ GetAdminLogs(Admin)

Spec == Init /\ [][Next]_vars

\* The admin service called with any credentials.
NextAuth ==
    \/ \E f \in QueryFiles : WriteFile(f)
    \/ Startup
    \/ \E c \in Creds, t \in TournamentInputs : AddTournament(c, t)
    \/ \E c \in Creds, g \in GolferInputs : AddOrUpdateGolfer(c, g)
    \/ \E c \in Creds, y \in YearInputs : DeleteTournament(c, y)
    \/ \E c \in Creds : ReloadData(c)
    \/ \E c \in Creds : ExportData(c)
    \/ \E c \in Creds : GetAdminLogs(c)

SpecAuth == Init /\ [][NextAuth]_vars

\* The query service, over the stores the admin reaches with the right
\* credentials.
NextQuery ==
    \/ \E f \in QueryFiles : WriteFile(f)
    \/ Startup
    \/ GetAllTournaments
    \/ \E y \in YearInputs : GetTournamentByYear(y)
    \/ GetAllGolfers
    \/ \E n \in NameInputs : GetGolferByName(n)
    \/ \E q \in Queries : SearchTournaments(q)
    \/ GetTournamentStats
    \/ \E t \in TournamentInputs : AddTournament(Admin, t)
    \/ \E g \in GolferInputs : AddOrUpdateGolfer(Admin, g)
    \/ \E y \in YearInputs : DeleteTournament(Admin, y)
    \/ ReloadData(Admin)

SpecQuery == Init /\ [][NextQuery]_vars

\* The process started and stopped over the data files of the seeding runs,
\* with the admin mutations in between.
NextSeed ==
    \/ \E f \in SeedFiles : WriteFile(f)
    \/ Startup
    \/ Stop
    \/ \E t \in TournamentInputs : AddTournament(Admin, t)
    \/ \E g \in GolferInputs : AddOrUpdateGolfer(Admin, g)
    \/ \E y \in YearInputs : DeleteTournament(Admin, y)

SpecSeed == Init /\ [][NextSeed]_vars

(***************************************************************************)
(* Properties.                                                              *)
(***************************************************************************)
LastLog(logs) == logs[Len(logs)]

RowsOfYear(T, y) == {r \in T : r.year = y}

RangeOf(seq) == {seq[i] : i \in 1..Len(seq)}

YearsDescending(rows) ==
    \A i \in 1..(Len(rows) - 1) : rows[i].year > rows[i + 1].year

\* s contains q as a literal substring, up to ASCII letter case.
ContainsCI(s, q) ==
    \E k \in 0..(Len(s) - Len(q)) :
        \A i \in 1..Len(q) : Fold(Ch(s, k + i)) = Fold(Ch(q, i))

\* C1: an authorized tournament upsert of a year that has a row logs UPDATE
\* and leaves the row count unchanged with exactly one row of that year; of
\* a year that has no row it logs INSERT and the row count grows by one.
C1_UpsertLogsAndCounts ==
    [][(last_op' = "add_tournament" /\ last_cred' = Admin) =>
          /\ last_status' = 200
          /\ Len(admin_logs') = Len(admin_logs) + 1
          /\ IF RowsOfYear(tournaments, last_arg'.year) # {}
             THEN /\ LastLog(admin_logs').action = "UPDATE"
                  /\ Cardinality(tournaments') = Cardinality(tournaments)
                  /\ Cardinality(RowsOfYear(tournaments', last_arg'.year)) = 1
             ELSE /\ LastLog(admin_logs').action = "INSERT"
                  /\ Cardinality(tournaments') = Cardinality(tournaments) + 1
                  /\ Cardinality(RowsOfYear(tournaments', last_arg'.year)) = 1]_vars

\* C1 witness: a year was inserted and then updated by two upserts.
C1_Witness ==
    /\ last_op = "add_tournament"
    /\ Len(admin_logs) >= 2
    /\ admin_logs[Len(admin_logs) - 1].action = "INSERT"
    /\ admin_logs[Len(admin_logs) - 1].details[1] = "Tournament"
    /\ LastLog(admin_logs).action = "UPDATE"
    /\ LastLog(admin_logs).details[1] = "Tournament"

\* The nullable o holds the value v.
IsSome(o, v) == Len(o) = 1 /\ o[1] = v

\* C2: a get-by-key issued right after a successful upsert returns exactly
\* the submitted field values, for a tournament (by year) and for a golfer
\* (by name).
C2_UpsertThenGetRoundTrip ==
    [][/\ (/\ last_op = "add_tournament"
           /\ last_status = 200
           /\ last_op' = "get_tournament_by_year"
           /\ last_arg' = last_arg.year) =>
              /\ last_status' = 200
              /\ last_body'.winner = last_arg.winner
              /\ last_body'.score = last_arg.score
              /\ last_body'.to_par = last_arg.to_par
              /\ last_body'.nationality = last_arg.nationality
       /\ (/\ last_op = "add_or_update_golfer"
           /\ last_status = 200
           /\ last_op' = "get_golfer_by_name"
           /\ last_arg' = last_arg.name) =>
              /\ last_status' = 200
              /\ last_body'.bio = last_arg.bio
              /\ IsSome(last_arg.total_majors, last_body'.total_majors)
              /\ last_body'.turned_pro = last_arg.turned_pro
              /\ last_body'.nationality = last_arg.nationality]_vars

WrongCredentials(cred) == cred[1] # ADMIN_USERNAME \/ cred[2] # ADMIN_PASSWORD

AdminOps == {"add_tournament", "add_or_update_golfer", "delete_tournament",
             "reload_data_from_json", "export_data_to_json", "get_admin_logs"}

\* C3: an admin operation called with a wrong username or a wrong password
\* answers 401 Unauthorized and leaves tournaments, golfers and the audit log
\* unchanged.
C3_WrongCredentialsChangeNothing ==
    [][(last_op' \in AdminOps /\ WrongCredentials(last_cred')) =>
          /\ last_status' = 401
          /\ UNCHANGED <<tournaments, golfers, admin_logs>>]_vars

\* C3 witness: a delete of a stored year with the right username and a wrong
\* password was refused.
C3_Witness ==
    /\ last_op = "delete_tournament"
    /\ last_cred[1] = ADMIN_USERNAME
    /\ last_cred[2] # ADMIN_PASSWORD
    /\ last_status = 401
    /\ RowsOfYear(tournaments, 2024) # {}
    /\ admin_logs # <<>>

\* C4: an authorized delete of a year that has no row answers 404 NotFound
\* and leaves the audit log, tournaments and golfers unchanged.
C4_DeleteMissingYear ==
    [][(/\ last_op' = "delete_tournament"
        /\ last_cred' = Admin
        /\ RowsOfYear(tournaments, last_arg') = {}) =>
          /\ last_status' = 404
          /\ UNCHANGED <<tournaments, golfers, admin_logs>>]_vars

\* C4 witness: a delete of a missing year was answered 404 on a store that
\* holds tournaments and an audit log.
C4_Witness ==
    /\ last_op = "delete_tournament"
    /\ last_cred = Admin
    /\ last_status = 404
    /\ tournaments # {}
    /\ admin_logs # <<>>

\* A row without its surrogate id.
WithoutId(r) == [k \in DOMAIN r \ {"id"} |-> r[k]]

ExportedFile(T, G) == JsonFile(JsonOf(export_data(T, G)))

\* C5: a bulk reload run while masters_data.json holds the export of the
\* current store succeeds and leaves the same tournament rows and the same
\* golfer rows, id and timestamps aside.
C5_ExportReloadRoundTrip ==
    [][(/\ last_op' = "reload_data_from_json"
        /\ last_cred' = Admin
        /\ file = ExportedFile(tournaments, golfers)) =>
          /\ last_status' = 200
          /\ {WithoutId(r) : r \in tournaments'} =
                 {WithoutId(r) : r \in tournaments}
          /\ {WithoutId(r) : r \in golfers'} =
                 {WithoutId(r) : r \in golfers}]_vars

\* C5 witness: an export was saved as the data file and reloaded, on a store
\* that holds a golfer whose total_majors is NULL and rows with new ids.
C5_Witness ==
    /\ last_op = "reload_data_from_json"
    /\ last_status = 200
    /\ Len(admin_logs) >= 2
    /\ admin_logs[Len(admin_logs) - 1].action = "EXPORT_DATA"
    /\ file = ExportedFile(tournaments, golfers)
    /\ tournaments # {}
    /\ \E g \in golfers : g.total_majors = None /\ g.id > Cardinality(golfers)

\* C6: stats on an empty tournament table returns total_years = 0,
\* unique_winners = 0, best_score = 0 (the number, not null), most_wins = 0
\* and most_wins_golfer = "".
C6_StatsOnEmptyTable ==
    (last_op = "get_tournament_stats" /\ tournaments = {}) =>
        /\ last_status = 200
        /\ last_body = [total_years |-> 0, unique_winners |-> 0,
                        best_score |-> Some(0), most_wins |-> 0,
                        most_wins_golfer |-> ""]

\* C7: get-golfer-by-name for a name without a golfer row returns, when the
\* name won tournaments, a record with id 0, total_majors the number of wins,
\* masters_wins the years won in descending order and no bio or nationality;
\* when the name won none, it answers 404 NotFound.
C7_GolferWithoutRow ==
    (/\ last_op = "get_golfer_by_name"
     /\ ~(\E g \in golfers : g.name = last_arg)) =>
        LET won == {r.year : r \in {r \in tournaments : r.winner = last_arg}} IN
        IF won # {}
        THEN /\ last_status = 200
             /\ last_body.id = 0
             /\ last_body.total_majors = Cardinality(won)
             /\ RangeOf(last_body.masters_wins) = won
             /\ \A i \in 1..(Len(last_body.masters_wins) - 1) :
                    last_body.masters_wins[i] > last_body.masters_wins[i + 1]
             /\ last_body.bio = None
             /\ last_body.nationality = None
        ELSE last_status = 404

\* C7 witness: a winner of two tournaments without a golfer row was looked up.
C7_Witness ==
    /\ last_op = "get_golfer_by_name"
    /\ last_status = 200
    /\ ~(\E g \in golfers : g.name = last_arg)
    /\ last_body.id = 0
    /\ last_body.masters_wins = <<2025, 2024>>

\* C8: search with an input that parses as an integer returns exactly the
\* tournaments of that year; with any other input it answers without error
\* exactly the tournaments whose winner contains the input as a literal
\* substring, up to letter case, by year descending.
C8_SearchLiteralSubstring ==
    (last_op = "search_tournaments") =>
        /\ last_status = 200
        /\ IF IntParses(last_arg)
           THEN RangeOf(last_body) = RowsOfYear(tournaments, IntValue(last_arg))
           ELSE /\ RangeOf(last_body) =
                       {r \in tournaments : ContainsCI(r.winner, last_arg)}
                /\ YearsDescending(last_body)

MutationOps == {"add_tournament", "add_or_update_golfer", "delete_tournament",
                "reload_data_from_json"}

MutationTags == {"INSERT", "UPDATE", "DELETE", "RELOAD_DATA"}

MutationEntries(logs) ==
    Cardinality({i \in 1..Len(logs) : logs[i].action \in MutationTags})

\* C9: the audit log is append-only, and a step appends one mutation entry
\* exactly when it is a successful admin mutation, so the mutation entries
\* count the successful mutations.
C9_AuditLogAppendOnly ==
    [][/\ Len(admin_logs') >= Len(admin_logs)
       /\ \A i \in 1..Len(admin_logs) : admin_logs'[i] = admin_logs[i]
       /\ Len(admin_logs') <= Len(admin_logs) + 1
       /\ MutationEntries(admin_logs') = MutationEntries(admin_logs) +
              (IF last_op' \in MutationOps /\ last_status' = 200 THEN 1 ELSE 0)]_vars

\* C9 witness: a delete was logged after an earlier logged mutation.
C9_Witness ==
    /\ last_op = "delete_tournament"
    /\ last_status = 200
    /\ Len(admin_logs) >= 2
    /\ MutationEntries(admin_logs) = Len(admin_logs)
    /\ LastLog(admin_logs).action = "DELETE"

\* C10: an authorized bulk reload of a data file that exists and fails to
\* load answers 500 Internal, never success.
C10_FailedLoadIsInternalError ==
    (/\ last_op = "reload_data_from_json"
     /\ last_cred = Admin
     /\ file.exists
     /\ TryLoad(Db({}, {}, seqT, seqG), file).err # NoErr) =>
        last_status = 500

\* A step in which the process was started: init_database ran and the
\* process either serves or has ended on the exception.
Started == server # "up" /\ server' # server

\* The row, id aside, that stores a tournament record whose values are all
\* present, and the one that stores a golfer record whose name is present.
TournamentRow(p) ==
    [year |-> p.year[1], winner |-> p.winner[1], score |-> p.score[1],
     to_par |-> p.to_par[1], nationality |-> p.nationality[1]]

GolferRow(p) ==
    [name |-> p.name[1], bio |-> p.bio, total_majors |-> p.total_majors,
     turned_pro |-> p.turned_pro, nationality |-> p.nationality]

\* The rows of the built-in dataset, without their ids.
BuiltInTournaments == {TournamentRow(p) : p \in RangeOf(DefaultTournaments)}

BuiltInGolfers == {GolferRow(p) : p \in RangeOf(DefaultGolfers)}

\* C11: whenever startup finds the tournament table empty and the data file
\* present, and parsing the file or inserting one of its records fails,
\* startup completes and the built-in dataset is stored, whatever the file
\* holds and whatever the admin operations left in the store.
C11_FailedSeedFallsBack ==
    [][(/\ Started
        /\ tournaments = {}
        /\ file.exists
        /\ TryLoad(Db(tournaments, golfers, seqT, seqG), file).err # NoErr) =>
           /\ server' = "up"
           /\ BuiltInTournaments \subseteq {WithoutId(r) : r \in tournaments'}
           /\ BuiltInGolfers \subseteq {WithoutId(r) : r \in golfers'}]_vars

\* Startup over a file that is not JSON, the store empty: the built-in
\* dataset is stored and the process serves.
C11_FallbackStored ==
    /\ server = "up"
    /\ file.exists /\ ~file.parses
    /\ {WithoutId(r) : r \in tournaments} = BuiltInTournaments
    /\ {WithoutId(r) : r \in golfers} = BuiltInGolfers
    /\ admin_logs = <<>>

\* The records of a key of the data file, an absent key being no records.
RecordsOf(f, key) == IF key \in DOMAIN f.data THEN f.data[key] ELSE <<>>

\* A record that can be stored: a tournament with a value for every column,
\* a golfer with a name.
ValidTournament(t) == TKeys \subseteq DOMAIN t /\ \A k \in TKeys : t[k] # None

ValidGolfer(g) == "name" \in DOMAIN g /\ g["name"] # None

\* The golfer record with the defaults of a missing key filled in.
GolferDefaults(g) ==
    [name |-> g["name"],
     bio |-> IF "bio" \in DOMAIN g THEN g["bio"] ELSE None,
     total_majors |-> IF "total_majors" \in DOMAIN g
                      THEN g["total_majors"] ELSE Some(0),
     turned_pro |-> IF "turned_pro" \in DOMAIN g THEN g["turned_pro"] ELSE None,
     nationality |-> IF "nationality" \in DOMAIN g
                     THEN g["nationality"] ELSE None]

\* The rows, ids aside, that a seeding which skips the failing records only
\* stores: for each key, the last valid record of the file (replace on
\* conflict).
SeededTournaments(f) ==
    LET ts == RecordsOf(f, "tournaments") IN
    {TournamentRow(ts[i]) : i \in
        {i \in 1..Len(ts) :
            /\ ValidTournament(ts[i])
            /\ ~\E j \in (i + 1)..Len(ts) :
                   ValidTournament(ts[j]) /\ ts[j].year = ts[i].year}}

SeededGolfers(f) ==
    LET gs == RecordsOf(f, "golfers") IN
    {GolferRow(GolferDefaults(gs[i])) : i \in
        {i \in 1..Len(gs) :
            /\ ValidGolfer(gs[i])
            /\ ~\E j \in (i + 1)..Len(gs) :
                   ValidGolfer(gs[j]) /\ gs[j]["name"] = gs[i]["name"]}}

\* C12: a startup that seeds from the data file (tournament table empty,
\* file present and parsed) and completes has stored every valid tournament
\* and golfer record of the file, those before and those after a record that
\* fails: a failing record is skipped alone and the batch goes on.
C12_SeedSkipsFailingRecordOnly ==
    [][(/\ Started
        /\ server' = "up"
        /\ tournaments = {}
        /\ file.exists /\ file.parses) =>
           /\ SeededTournaments(file) \subseteq {WithoutId(r) : r \in tournaments'}
           /\ SeededGolfers(file) \subseteq {WithoutId(r) : r \in golfers'}]_vars

\* Startup over a file whose records all load: they are all stored.
C12_AllRecordsStored ==
    /\ server = "up"
    /\ file.exists /\ file.parses
    /\ RecordsOf(file, "tournaments") # <<>>
    /\ {WithoutId(r) : r \in tournaments} = SeededTournaments(file)
    /\ {WithoutId(r) : r \in golfers} = SeededGolfers(file)
    /\ admin_logs = <<>>

====
